---- MODULE Spec2Model ----
(***************************************************************************)
(* The client component Action (src/app/action.js) with its hook           *)
(* usePropsChangedKey and the example server action greeting (README),     *)
(* run by React: a render commits the component's output, the passive      *)
(* effects the render flagged are flushed before the next render, state    *)
(* updates queued by the effects are applied by the next render, and the   *)
(* promise returned by a server action settles at any later moment.        *)
(***************************************************************************)
EXTENDS Integers, Sequences, FiniteSets, TLC

(* ------------------------------ bounds --------------------------------- *)

\* The parent stops changing the input set after this many changes of it.
MaxChanges == 1

(* ------------------------------ values --------------------------------- *)

\* A JavaScript value: a primitive (addr 0) or a composite allocated at addr.
Prim(n) == [addr |-> 0, val |-> n]
Obj(a, n) == [addr |-> a, val |-> n]

undefined == Prim(-1)

\* Object.is, which React applies to each pair of dependencies: primitives
\* compare by value, composites by identity.
ObjectIs(x, y) ==
  IF x.addr = 0 /\ y.addr = 0 THEN x.val = y.val ELSE x.addr = y.addr

\* Same content, whatever the allocation.
ValueEqual(x, y) == x.val = y.val /\ ((x.addr = 0) <=> (y.addr = 0))

Entry(n, v) == [name |-> n, val |-> v]

NoChildren == "undefined"

\* The attributes of <Action action={a} userId={..} ...>c</Action>.
CallerProps(a, c, p) ==
  <<Entry("action", a)>>
    \o (IF c = NoChildren THEN <<>> ELSE <<Entry("children", c)>>)
    \o p

Has(bag, n) == \E i \in 1..Len(bag) : bag[i].name = n

Get(bag, n) == bag[CHOOSE i \in 1..Len(bag) : bag[i].name = n].val

(* --------------------- Action's parameter list ------------------------- *)

\* { action, ... }
ActionOf(bag) == Get(bag, "action")

ChildrenOfNoDefault(bag) ==
  IF Has(bag, "children") THEN Get(bag, "children") ELSE NoChildren

\* children = <>loading...</>
ChildrenOf(bag) ==
  IF Has(bag, "children") THEN Get(bag, "children") ELSE "loading..."

IsRestEntry(e) == e.name \notin {"action", "children"}

\* ...props
PropsOf(bag) == SelectSeq(bag, IsRestEntry)

\* Object.values(props)
ObjectValues(p) == [i \in 1..Len(p) |-> p[i].val]

(* --------------------------- React's hooks ----------------------------- *)

areHookInputsEqualByValue(nextDeps, prevDeps) ==
  \A i \in 1..Len(nextDeps) :
    i <= Len(prevDeps) => ValueEqual(nextDeps[i], prevDeps[i])

\* The comparison React makes of an effect's dependency list with the list of
\* the previous render: Object.is at each position both lists have.
areHookInputsEqual(nextDeps, prevDeps) ==
  \A i \in 1..Len(nextDeps) :
    i <= Len(prevDeps) => ObjectIs(nextDeps[i], prevDeps[i])

\* The content of the state JSX: plain content, or a Suspense element whose
\* child is the promise of the inv-th call of the server action.
Content(c) == [type |-> "content", fallback |-> c, inv |-> 0]

SuspensePreviousCall(c, i) ==
  [type |-> "Suspense", fallback |-> c, inv |-> IF i > 1 THEN i - 1 ELSE i]

SuspenseNoFallback(c, i) == [type |-> "Suspense", fallback |-> "", inv |-> i]

\* <Suspense fallback={children}>{action(props)}</Suspense>
Suspense(c, i) == [type |-> "Suspense", fallback |-> c, inv |-> i]

(* ------------------------- the server action --------------------------- *)

users == <<[id |-> 1, username |-> "roggc"], [id |-> 2, username |-> "roger"]>>

\* <>hello {username}</>
Greeting(username) == "hello " \o username

\* <>Something went wrong: {errorMessage}</>
MyError(errorMessage) == "Something went wrong: " \o errorMessage

Never == [kind |-> "never", content |-> ""]
Resolve(c) == [kind |-> "resolve", content |-> c]
Reject(m) == [kind |-> "reject", content |-> m]

\* users.find((u) => u.id === userId)
FindUser(userId) ==
  {i \in 1..Len(users) : userId.addr = 0 /\ users[i].id = userId.val}

UserIdOf(args) == IF Has(args, "userId") THEN Get(args, "userId") ELSE undefined

greetingUnknownUserCaught(args) ==
  LET found == FindUser(UserIdOf(args))
  IN  IF found = {} THEN Resolve(MyError("user not found"))
      ELSE Resolve(Greeting(users[CHOOSE i \in found : \A j \in found : i <= j].username))

\* greeting({ userId }): the promise resolves to the username only when a
\* user is found; nothing in the try block fails.
greeting(args) ==
  LET found == FindUser(UserIdOf(args))
  IN  IF found = {} THEN Never
      ELSE Resolve(Greeting(users[CHOOSE i \in found : \A j \in found : i <= j].username))

greetingCrashUncaught(args) ==
  IF FindUser(UserIdOf(args)) = {} THEN Never ELSE Reject("crash!")

\* greeting with its line `throw new Error("crash!")` enabled: the failure is
\* raised after the await, inside the try block, and caught.
greetingCrash(args) ==
  IF FindUser(UserIdOf(args)) = {} THEN Never ELSE Resolve(MyError("crash!"))

\* A server action whose failure nothing catches: its promise rejects.
failing(args) == Reject("crash!")

\* action(props)
Call(a, args) ==
  IF a = "greetingCrash" THEN greetingCrash(args)
  ELSE IF a = "failing" THEN failing(args)
  ELSE greeting(args)

InvocationNoArgs(a, args) ==
  [action |-> a, args |-> <<>>, status |-> "pending", result |-> ""]

\* The call action(props), its promise pending.
Invocation(a, args) ==
  [action |-> a, args |-> args, status |-> "pending", result |-> ""]

(* ------------------------------ inputs --------------------------------- *)

Actions == {"greeting", "greetingCrash"}

Fallbacks == {NoChildren, "wait..."}

UserIds == {Prim(1), Prim(2), Prim(3), Obj(1, 1), Obj(2, 1)}

Bags ==
  {<<>>}
    \cup {<<Entry("userId", v)>> : v \in UserIds}
    \cup {<<Entry("userId", Prim(1)), Entry("tag", Prim(2))>>,
          <<Entry("tag", Prim(2)), Entry("userId", Prim(1))>>}

SimpleBags == {<<Entry("userId", Prim(1))>>, <<Entry("userId", Prim(2))>>}

\* The attributes a parent gives Action: every server action and fallback
\* with the plain user ids, every bag with greeting and no children.
Inputs ==
  {<<a, c, p>> : a \in Actions, c \in Fallbacks, p \in SimpleBags}
    \cup {<<"greeting", NoChildren, p>> : p \in Bags}

\* The attributes of a parent whose server action may be one that fails.
FailingInputs ==
  {<<a, c, p>> : a \in {"failing", "greeting"}, c \in Fallbacks, p \in SimpleBags}

(* ------------------------------- state --------------------------------- *)

VARIABLES
  memoizedProps,    \* the attributes of the latest render of Action
  JSX,              \* useState(children) of Action
  jsxQueue,         \* the queued setJSX updates
  propsChangedKey,  \* useState(0) of usePropsChangedKey
  keyQueue,         \* the number of queued setPropsChangedKey((k) => k + 1)
  trackerDeps,      \* [...args] of the latest render
  actionDeps,       \* [propsChangedKey] of the latest render
  pendingEffects,   \* the effects the latest render flagged, not yet flushed
  invocations,      \* the calls action(props) made so far
  screen,           \* what the rendering host shows
  hostError,        \* a rejected promise was thrown into the rendering host
  changes,          \* history: the renders whose input set differed from the previous render's
  shown             \* history, kept in the runs of Client1: the distinct contents of screen

vars ==
  <<memoizedProps, JSX, jsxQueue, propsChangedKey, keyQueue, trackerDeps,
    actionDeps, pendingEffects, invocations, screen, hostError, changes, shown>>

action == ActionOf(memoizedProps)
children == ChildrenOf(memoizedProps)
props == PropsOf(memoizedProps)

\* The history of the screen with the content x added; an empty history is
\* one that is not kept.
Log(s, x) == IF s = <<>> \/ s[Len(s)] = x THEN s ELSE Append(s, x)

\* Positional, shallow difference of two input sets.
InputSetDiffers(prev, next) ==
  \/ Len(prev) # Len(next)
  \/ \E i \in 1..Len(next) : ~ObjectIs(prev[i], next[i])

ShowsChildrenOfRender(jsx, invs) ==
  IF jsx.type # "Suspense" THEN jsx.fallback
  ELSE IF invs[jsx.inv].status = "fulfilled" THEN invs[jsx.inv].result
       ELSE children

\* What the host shows for the element `return JSX`: a Suspense element
\* shows its fallback until its promise is fulfilled, then the value.
Shows(jsx, invs) ==
  IF jsx.type # "Suspense" THEN jsx.fallback
  ELSE IF invs[jsx.inv].status = "fulfilled" THEN invs[jsx.inv].result
       ELSE jsx.fallback

ThrowsNever(jsx, invs) == FALSE

\* A Suspense element whose promise is rejected throws the reason when it is
\* rendered.
Throws(jsx, invs) ==
  jsx.type = "Suspense" /\ invs[jsx.inv].status = "rejected"

KeyAfterToggles(k, n) == IF n % 2 = 1 THEN 1 - k ELSE k

\* The state of usePropsChangedKey after its n queued updates (k) => k + 1.
KeyAfter(k, n) == k + n

EffectDepsWithAction(key, a) ==
  <<Prim(key),
    Obj(IF a = "greeting" THEN 11 ELSE IF a = "greetingCrash" THEN 12 ELSE 13, 0)>>

\* The dependencies of the effect of Action: [propsChangedKey]; the server
\* action a is not one of them.
EffectDeps(key, a) == <<Prim(key)>>

(* ----------------------------- operations ------------------------------ *)

\* The first render of Action: both useState initialised, every effect flagged.
Mount(bag) ==
  /\ memoizedProps = bag
  /\ JSX = Content(ChildrenOf(bag))
  /\ jsxQueue = <<>>
  /\ propsChangedKey = 0
  /\ keyQueue = 0
  /\ trackerDeps = ObjectValues(PropsOf(bag))
  /\ actionDeps = EffectDeps(propsChangedKey, ActionOf(bag))
  /\ pendingEffects = {"usePropsChangedKey", "Action"}
  /\ invocations = <<>>
  /\ screen = Shows(JSX, invocations)
  /\ hostError = FALSE
  /\ changes = 0

Init == \E in \in Inputs : Mount(CallerProps(in[1], in[2], in[3])) /\ shown = <<>>

\* A later render of Action with the attributes bag: the queued state updates
\* are applied, each effect whose dependencies changed is flagged, and the
\* returned JSX is committed.
Render(bag) ==
  LET key == KeyAfter(propsChangedKey, keyQueue)
      jsx == IF jsxQueue = <<>> THEN JSX ELSE jsxQueue[Len(jsxQueue)]
      args == ObjectValues(PropsOf(bag))
      flagged ==
        (IF areHookInputsEqual(args, trackerDeps) THEN {} ELSE {"usePropsChangedKey"})
          \cup (IF areHookInputsEqual(EffectDeps(key, ActionOf(bag)), actionDeps)
              THEN {} ELSE {"Action"})
  IN  /\ ~hostError
      /\ pendingEffects = {}
      /\ memoizedProps' = bag
      /\ propsChangedKey' = key
      /\ keyQueue' = 0
      /\ JSX' = jsx
      /\ jsxQueue' = <<>>
      /\ trackerDeps' = args
      /\ actionDeps' = EffectDeps(key, ActionOf(bag))
      /\ pendingEffects' = flagged
      /\ hostError' = Throws(jsx, invocations)
      /\ screen' = IF hostError' THEN "" ELSE Shows(jsx, invocations)
      /\ changes' = changes + (IF InputSetDiffers(trackerDeps, args) THEN 1 ELSE 0)
      /\ shown' = Log(shown, screen')
      /\ UNCHANGED invocations

\* The parent renders Action with attributes out of S, the same or others.
RenderFrom(S) ==
  \E in \in S :
    /\ changes + (IF InputSetDiffers(trackerDeps, ObjectValues(in[3])) THEN 1 ELSE 0)
         <= MaxChanges
    /\ Render(CallerProps(in[1], in[2], in[3]))

ParentRender == RenderFrom(Inputs)

\* Action renders again because one of its states has a queued update.
StateRender ==
  /\ keyQueue > 0 \/ jsxQueue # <<>>
  /\ Render(memoizedProps)

\* useEffect(() => { setPropsChangedKey((k) => k + 1); }, [...args])
usePropsChangedKeyEffect == "usePropsChangedKey" \in pendingEffects

\* useEffect(() => { setJSX(<Suspense ...>{action(props)}</Suspense>); }, [propsChangedKey])
ActionEffect == "Action" \in pendingEffects

\* The passive effects of the latest render are flushed, in hook order.
RunEffects ==
  /\ ~hostError
  /\ pendingEffects # {}
  /\ keyQueue' = IF usePropsChangedKeyEffect THEN keyQueue + 1 ELSE keyQueue
  /\ invocations' =
       IF ActionEffect THEN Append(invocations, Invocation(action, props))
       ELSE invocations
  /\ jsxQueue' =
       IF ActionEffect
       THEN Append(jsxQueue, Suspense(children, Len(invocations')))
       ELSE jsxQueue
  /\ pendingEffects' = {}
  /\ UNCHANGED <<memoizedProps, JSX, propsChangedKey, trackerDeps, actionDeps,
                 screen, hostError, changes, shown>>

IsSourceAny(i) == JSX.type = "Suspense"

\* The promise of the i-th call is the child of the Suspense element on screen.
IsSource(i) == JSX.type = "Suspense" /\ JSX.inv = i

\* The promise of the i-th call settles; the Suspense element that holds it,
\* when it is the one on screen, is rendered again.
Settle(i) ==
  LET outcome == Call(invocations[i].action, invocations[i].args)
  IN  /\ invocations[i].status = "pending"
      /\ outcome.kind # "never"
      /\ invocations' =
           [invocations EXCEPT
              ![i].status = IF outcome.kind = "resolve" THEN "fulfilled" ELSE "rejected",
              ![i].result = outcome.content]
      /\ hostError' = (hostError \/ (IsSource(i) /\ outcome.kind = "reject"))
      /\ screen' =
           IF hostError' THEN ""
           ELSE IF IsSource(i) THEN outcome.content
           ELSE screen
      /\ shown' = Log(shown, screen')
      /\ UNCHANGED <<memoizedProps, JSX, jsxQueue, propsChangedKey, keyQueue,
                     trackerDeps, actionDeps, pendingEffects, changes>>

Next ==
  \/ ParentRender
  \/ StateRender
  \/ RunEffects
  \/ \E i \in 1..Len(invocations) : Settle(i)

Spec == Init /\ [][Next]_vars

(* ------------------ Client1, the parent of the README ------------------ *)

\* React has nothing left to do for Action.
Quiescent == pendingEffects = {} /\ keyQueue = 0 /\ jsxQueue = <<>>

\* The promise of greeting settles DELAY ms and a network round trip after
\* the call, when the renders the call was made in are long over.
SettleAfterDelay(i) == Quiescent /\ Settle(i)

SetUserId(bag, v) ==
  [i \in 1..Len(bag) |-> IF bag[i].name = "userId" THEN Entry("userId", v) ELSE bag[i]]

\* const [userId, setUserId] = useState(1); <Action action={greeting} userId={userId} />
Client1Init ==
  \E a \in Actions, c \in Fallbacks :
    /\ Mount(CallerProps(a, c, <<Entry("userId", Prim(1))>>))
    /\ shown = <<screen>>

\* onClick={() => { setUserId(2); }}: Client1 renders Action with userId 2.
Click ==
  /\ Get(memoizedProps, "userId") # Prim(2)
  /\ Render(SetUserId(memoizedProps, Prim(2)))

Client1Next ==
  \/ Click
  \/ StateRender
  \/ RunEffects
  \/ \E i \in 1..Len(invocations) : SettleAfterDelay(i)

SpecClient1 == Client1Init /\ [][Client1Next]_vars

(* ------------- a parent whose server action can fail uncaught ---------- *)

FailingInit ==
  \E in \in FailingInputs : Mount(CallerProps(in[1], in[2], in[3])) /\ shown = <<>>

FailingParentRender == RenderFrom(FailingInputs)

FailingNext ==
  \/ FailingParentRender
  \/ StateRender
  \/ RunEffects
  \/ \E i \in 1..Len(invocations) : Settle(i)

SpecFailing == FailingInit /\ [][FailingNext]_vars

(* ------------------------------ properties ----------------------------- *)

\* A step that renders Action (a step that is neither a flush of effects
\* nor the settlement of a promise).
RenderStep == pendingEffects = {} /\ invocations' = invocations

\* A step that flushes the effects of the latest render.
FlushStep == pendingEffects # {} /\ pendingEffects' = {}

\* C1: as long as the server action has not been called at all, the screen
\* shows the children the caller gave, or "loading..." when it gave none.
C1_InitialContentIsFallback ==
  invocations = <<>> =>
    screen = (IF Has(memoizedProps, "children")
              THEN Get(memoizedProps, "children") ELSE "loading...")

C1_Witness ==
  /\ invocations = <<>>
  /\ ~Has(memoizedProps, "children")
  /\ screen = "loading..."

\* C2: in every render the key is the number of earlier renders whose input
\* set differed from the input set of the render before them: it grows by 1
\* in the render after such a render and by 0 in every other render.
C2_KeyGrowsAfterChangeOnly ==
  [][RenderStep => propsChangedKey' = changes]_vars

\* C3: the key is 0 as long as no render has found the input set to differ
\* from the previous render's.
C3_KeyZeroUntilFirstChange == changes = 0 => propsChangedKey = 0

\* C4: a render in which the key has advanced flags the effect of Action
\* (and a render in which it has not, does not); the flush that follows calls
\* the server action once, with the attributes of that render less action
\* and children, in their order; and nothing else calls the server action.
C4_OneInvocationPerAdvance ==
  [][/\ RenderStep =>
          (propsChangedKey' # propsChangedKey <=> "Action" \in pendingEffects')
     /\ (FlushStep /\ "Action" \in pendingEffects) =>
          invocations' =
            Append(invocations,
                   [action |-> Get(memoizedProps, "action"),
                    args |-> SelectSeq(memoizedProps,
                                       LAMBDA e : e.name # "action" /\ e.name # "children"),
                    status |-> "pending",
                    result |-> ""])
     /\ Len(invocations') # Len(invocations) =>
          FlushStep /\ "Action" \in pendingEffects
     /\ pendingEffects # {} => memoizedProps' = memoizedProps]_vars

C4_Witness ==
  /\ propsChangedKey = 2
  /\ Len(invocations) = 3
  /\ invocations[3].args = <<Entry("userId", Prim(2))>>
  /\ invocations[2].args = <<Entry("userId", Prim(1))>>
  /\ Has(memoizedProps, "children")

\* C5: as long as the input set has never changed since the mount, no render
\* and no flush of effects after the mount's own call of the server action
\* calls it again, and the Suspense element on screen is not replaced.
C5_UnchangedInputsNeverInvoke ==
  [][(changes' = 0 /\ action' = action /\ invocations # <<>>) =>
       /\ Len(invocations') = Len(invocations)
       /\ (JSX.type = "Suspense" => JSX' = JSX)]_vars

\* C6 as claimed: while a call of the server action is pending the screen
\* shows a fallback, and once the latest call has settled, with no advance
\* of the key under way, the screen shows what it settled to.
C6_FallbackUntilSettledForEveryCall ==
  \A i \in 1..Len(invocations) :
    /\ invocations[i].status = "pending" => screen \in {"loading...", "wait..."}
    /\ (invocations[i].status = "fulfilled" /\ i = Len(invocations) /\ Quiescent)
         => screen = invocations[i].result

\* C6 as amended: for the call whose Suspense element is the committed JSX,
\* the screen shows the fallback of the render that made the call while the
\* call is pending and what it settled to afterwards; that element is
\* replaced only by the element of a later call.
C6_FallbackUntilSettledForSource ==
  /\ [](JSX.type = "Suspense" =>
          /\ invocations[JSX.inv].status = "pending" => screen = JSX.fallback
          /\ invocations[JSX.inv].status = "fulfilled" =>
               screen = invocations[JSX.inv].result)
  /\ [][/\ (FlushStep /\ "Action" \in pendingEffects) =>
            jsxQueue'[Len(jsxQueue')] =
              [type |-> "Suspense",
               fallback |-> (IF Has(memoizedProps, "children")
                             THEN Get(memoizedProps, "children") ELSE "loading..."),
               inv |-> Len(invocations')]
       /\ (JSX.type = "Suspense" /\ JSX' # JSX) =>
            JSX'.type = "Suspense" /\ JSX'.inv > JSX.inv]_vars

C6_Witness ==
  /\ JSX.type = "Suspense"
  /\ JSX.inv = 3
  /\ invocations[3].status = "fulfilled"
  /\ invocations[2].status = "pending"
  /\ screen = "hello roger"

\* The run is the one of the README: greeting, no children given.
Client1Scenario ==
  Get(memoizedProps, "action") = "greeting" /\ ~Has(memoizedProps, "children")

ScenarioB == <<"loading...", "hello roggc", "loading...", "hello roger">>

IsPrefix(s, t) == Len(s) <= Len(t) /\ \A i \in 1..Len(s) : s[i] = t[i]

\* C7: in a run of Client1 in which "hello roggc" was shown before the click,
\* the contents shown are, in order, "loading...", "hello roggc",
\* "loading...", "hello roger": every history is a prefix of that, and it is
\* the whole of it once the call for userId 2 has settled on screen.
C7_ScenarioB ==
  (Client1Scenario /\ Len(shown) >= 2 /\ shown[2] = "hello roggc") =>
    /\ IsPrefix(shown, ScenarioB)
    /\ (/\ Get(memoizedProps, "userId") = Prim(2)
        /\ JSX.type = "Suspense"
        /\ invocations[JSX.inv].args = <<Entry("userId", Prim(2))>>
        /\ invocations[JSX.inv].status = "fulfilled") => shown = ScenarioB

C7_Witness == Client1Scenario /\ shown = ScenarioB

\* C8: in a run of Client1 without a click, the contents shown are
\* "loading..." and then "hello roggc", and nothing after it.
C8_ScenarioA ==
  (Client1Scenario /\ Get(memoizedProps, "userId") = Prim(1)) =>
    /\ IsPrefix(shown, <<"loading...", "hello roggc">>)
    /\ (JSX.type = "Suspense" /\ invocations[JSX.inv].status = "fulfilled") =>
         shown = <<"loading...", "hello roggc">>

C8_Witness ==
  /\ Client1Scenario
  /\ Get(memoizedProps, "userId") = Prim(1)
  /\ shown = <<"loading...", "hello roggc">>
  /\ \A i \in 1..Len(invocations) : invocations[i].status = "fulfilled"
  /\ Quiescent

\* C9: a call of the server action whose failure is caught inside it settles
\* as a fulfilled promise whose value is the error content, the screen shows
\* that content when the call is the one on screen, and nothing is thrown
\* into the rendering host.
C9_ScenarioC ==
  \A i \in 1..Len(invocations) :
    (invocations[i].action = "greetingCrash" /\ invocations[i].status # "pending") =>
      /\ invocations[i].status = "fulfilled"
      /\ invocations[i].result = "Something went wrong: crash!"
      /\ ~hostError
      /\ (JSX.type = "Suspense" /\ JSX.inv = i) => screen = "Something went wrong: crash!"

C9_Witness ==
  /\ JSX.type = "Suspense"
  /\ invocations[JSX.inv].action = "greetingCrash"
  /\ invocations[JSX.inv].status = "fulfilled"
  /\ screen = "Something went wrong: crash!"
  /\ Quiescent

\* The input set next holds the values of prev, one of them at least in a
\* new allocation.
FreshCopy(prev, next) ==
  /\ Len(prev) = Len(next)
  /\ \A i \in 1..Len(next) : prev[i].val = next[i].val
  /\ \A i \in 1..Len(next) : (prev[i].addr = 0) = (next[i].addr = 0)
  /\ \E i \in 1..Len(next) : prev[i].addr # next[i].addr

\* C10: a render whose input set is a fresh copy of the previous render's
\* flags the effect of usePropsChangedKey; the flush queues one increment of
\* the key; the next render advances the key by it and flags the effect of
\* Action; and that flush calls the server action with the attributes of
\* the render.
C10_ScenarioD ==
  [][/\ (RenderStep /\ FreshCopy(trackerDeps, trackerDeps')) =>
          "usePropsChangedKey" \in pendingEffects'
     /\ (FlushStep /\ "usePropsChangedKey" \in pendingEffects) =>
          keyQueue' = keyQueue + 1
     /\ (RenderStep /\ keyQueue > 0 /\ keyQueue' = 0) =>
          /\ propsChangedKey' = propsChangedKey + keyQueue
          /\ "Action" \in pendingEffects'
     /\ (FlushStep /\ "Action" \in pendingEffects) =>
          /\ Len(invocations') = Len(invocations) + 1
          /\ invocations'[Len(invocations')].args =
               SelectSeq(memoizedProps,
                         LAMBDA e : e.name # "action" /\ e.name # "children")]_vars

C10_Witness ==
  /\ propsChangedKey = 2
  /\ Len(invocations) = 3
  /\ invocations[2].args = <<Entry("userId", Obj(1, 1))>>
  /\ invocations[3].args = <<Entry("userId", Obj(2, 1))>>

\* C11: the key of usePropsChangedKey is a natural number that is 0 as long
\* as no effect has been flushed; a step that changes it is a render that
\* applies one queued update and adds exactly 1 (it never decreases, skips a
\* value or goes back to 0); and only the effect of usePropsChangedKey
\* queues an update, one per flush.
C11_KeyCountsUpByOne ==
  /\ [](propsChangedKey \in Nat /\ keyQueue \in {0, 1})
  /\ [](invocations = <<>> /\ pendingEffects # {} => propsChangedKey = 0)
  /\ [][propsChangedKey' # propsChangedKey =>
         RenderStep /\ keyQueue = 1 /\ propsChangedKey' = propsChangedKey + 1]_vars
  /\ [][keyQueue' > keyQueue =>
         FlushStep /\ usePropsChangedKeyEffect /\ keyQueue' = keyQueue + 1]_vars

\* The key has been increased twice.
C11_Witness == propsChangedKey = 2

\* C12, as stated: once the server action has been called again, the latest
\* call is at every moment the one whose promise the element on screen holds.
C12_LatestCallIsSourceAtEveryMoment ==
  Len(invocations) >= 2 =>
    JSX.type = "Suspense" /\ JSX.inv = Len(invocations)

\* C12: the effect of Action calls the server action again whatever the state
\* of the earlier promises, and queues a Suspense element around the new
\* promise; the next render commits that element; JSX holds at most one
\* promise, and whenever no setJSX update is queued it is the promise of the
\* latest call.
C12_LatestCallIsSourceOnceCommitted ==
  /\ [](JSX.type = "Suspense" => JSX.inv \in 1..Len(invocations))
  /\ [](jsxQueue = <<>> /\ invocations # <<>> =>
          JSX.type = "Suspense" /\ JSX.inv = Len(invocations))
  /\ [][FlushStep /\ ActionEffect =>
         /\ invocations' = Append(invocations, Invocation(action, props))
         /\ jsxQueue' # <<>>
         /\ jsxQueue'[Len(jsxQueue')] = Suspense(children, Len(invocations'))]_vars
  /\ [][RenderStep /\ jsxQueue # <<>> => JSX' = jsxQueue[Len(jsxQueue)]]_vars

\* The input set changed while the promise of the second call was pending,
\* and the element on screen holds the promise of the third call.
C12_Witness ==
  /\ changes = 1
  /\ Len(invocations) = 3
  /\ invocations[2].status = "pending"
  /\ invocations[2].args # invocations[3].args
  /\ jsxQueue = <<>>
  /\ JSX.type = "Suspense" /\ JSX.inv = 3

\* C13: a render flags the effect of usePropsChangedKey (records a change)
\* exactly when the list of values has another length than the previous
\* render's or differs from it, by Object.is, at some position.
C13_ChangeIffPositionalDifference ==
  [][RenderStep =>
       (("usePropsChangedKey" \in pendingEffects')
          <=> InputSetDiffers(trackerDeps, trackerDeps'))]_vars

\* C14, as stated: a call of the server action whose promise has been
\* rejected has, once nothing is left to do, been surfaced to the rendering
\* host.
C14_EveryFailureSurfaces ==
  ( /\ \E i \in 1..Len(invocations) : invocations[i].status = "rejected"
    /\ Quiescent
    /\ \A j \in 1..Len(invocations) :
         invocations[j].status = "pending" =>
           Call(invocations[j].action, invocations[j].args).kind = "never" )
  => hostError

\* C14: the rejected promise is thrown into the rendering host exactly when
\* it is the one the element on screen holds; then the screen shows neither
\* the fallback nor a result, and Action makes no further call and commits
\* no further element; the rejection itself calls nothing and queues
\* nothing. The rejection of a promise that is not on screen is dropped.
C14_SourceFailureSurfacesOnly ==
  /\ [](hostError <=> (JSX.type = "Suspense" /\ invocations[JSX.inv].status = "rejected"))
  /\ [](hostError => screen = "")
  /\ [][hostError =>
         /\ hostError'
         /\ Len(invocations') = Len(invocations)
         /\ JSX' = JSX /\ jsxQueue' = jsxQueue /\ screen' = screen]_vars
  /\ [][(\E i \in 1..Len(invocations) :
           invocations[i].status = "pending" /\ invocations'[i].status = "rejected")
         => /\ Len(invocations') = Len(invocations)
            /\ pendingEffects' = pendingEffects
            /\ keyQueue' = keyQueue /\ jsxQueue' = jsxQueue /\ JSX' = JSX]_vars

\* The promise on screen was rejected after an earlier rejection was dropped.
C14_Witness ==
  /\ hostError
  /\ screen = ""
  /\ JSX.type = "Suspense" /\ JSX.inv = 3
  /\ invocations[2].status = "rejected"
  /\ invocations[3].status = "rejected"

C16_OneCallPlusOnePerChange ==
  /\ changes = 0 => Len(invocations) <= 1
  /\ Quiescent => Len(invocations) = 1 + changes

\* C17, as stated: once the server action has been called again, the screen
\* shows a fallback or the result of the latest call, nothing else.
C17_OnlyLatestResultOnceCalledAgain ==
  Len(invocations) >= 2 =>
    \/ screen \in {"loading...", "wait..."}
    \/ /\ invocations[Len(invocations)].status = "fulfilled"
       /\ screen = invocations[Len(invocations)].result

\* C17: a call is never withdrawn or altered, and as long as its promise is
\* pending and can settle it may settle, superseded or not; once a Suspense
\* element is the committed JSX the screen shows its fallback or the result
\* of its promise, nothing else; and the settlement of any other promise
\* leaves the screen and the JSX as they are.
C17_StaleResultNeverShownOnceCommitted ==
  /\ [][\A i \in 1..Len(invocations) :
         /\ Len(invocations') >= Len(invocations)
         /\ invocations'[i].action = invocations[i].action
         /\ invocations'[i].args = invocations[i].args
         /\ invocations[i].status # "pending" => invocations'[i] = invocations[i]]_vars
  /\ [](\A i \in 1..Len(invocations) :
          (invocations[i].status = "pending"
             /\ Call(invocations[i].action, invocations[i].args).kind # "never")
          => ENABLED Settle(i))
  /\ [](JSX.type = "Suspense" /\ ~hostError =>
          \/ screen = JSX.fallback
          \/ /\ invocations[JSX.inv].status = "fulfilled"
             /\ screen = invocations[JSX.inv].result)
  /\ [][\A i \in 1..Len(invocations) :
         (invocations'[i].status # invocations[i].status
            /\ ~(JSX.type = "Suspense" /\ JSX.inv = i))
         => screen' = screen /\ JSX' = JSX]_vars

\* The second call, made for other named inputs than the third, has settled
\* with another result than the third, whose result the screen shows.
C17_Witness ==
  /\ Len(invocations) = 3
  /\ JSX.type = "Suspense" /\ JSX.inv = 3
  /\ invocations[2].status = "fulfilled"
  /\ invocations[3].status = "fulfilled"
  /\ invocations[2].result # invocations[3].result
  /\ screen = invocations[3].result

\* C18: a render that brings the same named inputs, with whatever children
\* and server action, while nothing is queued, leaves the key, the calls,
\* the committed JSX and the screen as they are and flags no effect; the
\* Suspense element is made with the children of the render whose effect
\* makes the call, and while its promise is pending the screen shows those
\* children, whatever the children of the latest render.
C18_FallbackAndProducerNotTracked ==
  /\ [][RenderStep /\ Quiescent /\ props' = props =>
         /\ propsChangedKey' = propsChangedKey
         /\ pendingEffects' = {}
         /\ JSX' = JSX
         /\ screen' = screen]_vars
  /\ [][FlushStep /\ ActionEffect =>
         jsxQueue'[Len(jsxQueue')].fallback = children]_vars
  /\ [](JSX.type = "Suspense" /\ invocations[JSX.inv].status = "pending" =>
          screen = JSX.fallback)

\* The latest render brought other children and another server action than
\* the render of the call on screen, whose fallback the screen shows.
C18_Witness ==
  /\ Quiescent
  /\ JSX.type = "Suspense"
  /\ invocations[JSX.inv].status = "pending"
  /\ JSX.fallback # children
  /\ invocations[JSX.inv].action # action
  /\ invocations[JSX.inv].args = props
  /\ screen = JSX.fallback

\* C19: a call of greeting whose userId is the id of no user stays pending;
\* while its promise is the one the committed JSX holds the screen shows the
\* fallback of that element, and the screen changes only when a render
\* commits the element of a later call.
C19_UnknownUserNeverSettles ==
  /\ [](\A i \in 1..Len(invocations) :
          (invocations[i].action = "greeting"
             /\ FindUser(UserIdOf(invocations[i].args)) = {})
          => /\ invocations[i].status = "pending"
             /\ (JSX.type = "Suspense" /\ JSX.inv = i) => screen = JSX.fallback)
  /\ [][( /\ JSX.type = "Suspense"
          /\ invocations[JSX.inv].action = "greeting"
          /\ FindUser(UserIdOf(invocations[JSX.inv].args)) = {}
          /\ screen' # screen )
        => RenderStep /\ JSX'.inv > JSX.inv]_vars

\* Nothing is left to do, the call on screen is greeting for the user id 3,
\* and the screen shows the fallback.
C19_Witness ==
  /\ Quiescent
  /\ JSX.type = "Suspense"
  /\ invocations[JSX.inv].action = "greeting"
  /\ UserIdOf(invocations[JSX.inv].args) = Prim(3)
  /\ invocations[JSX.inv].status = "pending"
  /\ \A i \in 1..Len(invocations) : invocations[i].status = "pending"
  /\ screen = "loading..."

====
